---- MODULE Spec2Model ----
(***************************************************************************)
(* A model of the changeset builder (createChangeset, packages/cli) and    *)
(* the changeset serializer (writeChangeset, packages/write).              *)
(*                                                                         *)
(* Strings that the code only stores and compares are TLA+ strings.  A     *)
(* category label is the sequence of its words (the label split on " "),   *)
(* a rendered document is a sequence of lines and a line is the sequence   *)
(* of the pieces its template literal concatenates.                        *)
(***************************************************************************)
EXTENDS Integers, Sequences, FiniteSets, TLC

(* ------------------------------ bounds -------------------------------- *)

\* the largest workspace (number of packages) explored
MaxPkgs == 3
\* how many entries of the category catalog a user answer may pick from
MaxCats == 2
\* how many times in a row a prompt that insists on an answer gets an empty one
MaxRetries == 1
\* the longest releases list and category list handed to writeChangeset directly
MaxReleases == 3
MaxEntries == 2
\* how many writeChangeset calls share one .changeset directory
MaxCalls == 2
\* how many changesets a run of the summary loop alone is started with
MaxSummaries == 2

(* --------------------------- input universe --------------------------- *)

\* The packages workspaces are cut from: { name, version } as listed by the
\* workspace package listing; a version is <<major, minor, patch>>.
PkgPool ==
  << [name |-> "a",        version |-> <<0, 5, 0>>],
     [name |-> "@scope/b", version |-> <<1, 2, 0>>],
     [name |-> "c",        version |-> <<0, 9, 1>>],
     [name |-> "d",        version |-> <<2, 0, 0>>] >>

\* a name the caller may report as changed although no workspace package has it
Outsider == "ghost"

Min(x, y) == IF x <= y THEN x ELSE y

\* every non-empty contiguous slice of the pool of at most MaxPkgs packages
Workspaces ==
  { SubSeq(PkgPool, i, j) :
      i \in 1..Len(PkgPool), j \in 1..Len(PkgPool) } \
  { ws \in { SubSeq(PkgPool, i, j) : i \in 1..Len(PkgPool), j \in 1..Len(PkgPool) } :
      Len(ws) = 0 \/ Len(ws) > MaxPkgs }

Names(pkgs) == [i \in 1..Len(pkgs) |-> pkgs[i].name]

Range(s) == { s[i] : i \in 1..Len(s) }

\* the elements of s at the positions in S, in the order of s
RECURSIVE PickFrom(_, _, _)
PickFrom(s, S, i) ==
  IF i > Len(s) THEN <<>>
  ELSE (IF i \in S THEN <<s[i]>> ELSE <<>>) \o PickFrom(s, S, i + 1)

\* the changedPackages lists a caller may pass for a workspace
ChangedLists(ws) ==
  LET ns == Names(ws) IN
  { <<ns[Len(ns)]>>, <<ns[1], Outsider>> }

SummaryTexts == { "", "fix the bug" }
EditorTexts == { "", "from editor" }
Descriptions == { "new flag" }

(* ------------------------- program constants -------------------------- *)

\* Each label is the sequence of its words: label.split(" ").
allCategoriesOfChange ==
  << <<"Added", "(New", "functionality,", "arg", "options,", "more", "UI",
       "elements)">>,
     <<"Changed", "(Visual", "changes,", "internal", "changes,", "API",
       "changes)">>,
     <<"Removed", "(Dead", "code,", "feature", "flags,", "consumer",
       "API's)">>,
     <<"Types", "(Strictly", "related", "to", "the", "type", "system", "and",
       "should", "not", "have", "impact", "on", "runtime", "code)", "">>,
     <<"Documentation", "(README,", "general", "docs,", "package.json",
       "metadata)">>,
     <<"Infra", "(Tooling,", "performance,", "things", "that", "are", "under",
       "the", "hood", "but", "should", "have", "no", "impact", "if", "a",
       "consumer", "upgraded)">>,
     <<"Misc", "(Anything", "else", "not", "noted", "above)">> >>

\* kind.split(" ")[0]
getKindTitle(kind) == kind[1]

\* semver.lt(v, w) on plain x.y.z versions
SemverLt(v, w) ==
  \/ v[1] < w[1]
  \/ v[1] = w[1] /\ v[2] < w[2]
  \/ v[1] = w[1] /\ v[2] = w[2] /\ v[3] < w[3]

\* the version confirmMajorRelease compares with
FirstMajor == <<1, 0, 0>>

\* the comparison turned around: semver.gt
NeedsMajorConfirm_gt(pkgJson) == SemverLt(FirstMajor, pkgJson.version)

\* whether confirmMajorRelease asks its question for this package.json
NeedsMajorConfirm(pkgJson) == SemverLt(pkgJson.version, FirstMajor)

(* ------------------------- prompt collaborators ----------------------- *)

\* One group of a grouped checkbox prompt answered by ticking the children at
\* the positions S: the keys of the ticked children, preceded by the key of
\* the group when every child of it is ticked.
GroupAnswer(g, S) ==
  LET sel == PickFrom(g.choices, S, 1) IN
  IF Len(g.choices) > 0 /\ Len(sel) = Len(g.choices) THEN <<g.name>> \o sel ELSE sel

\* every answer askCheckboxPlus can give for a list of groups
RECURSIVE CheckboxAnswers(_)
CheckboxAnswers(groups) ==
  IF groups = <<>> THEN { <<>> }
  ELSE { GroupAnswer(Head(groups), S) \o rest :
           S \in SUBSET (1..Len(Head(groups).choices)),
           rest \in CheckboxAnswers(Tail(groups)) }

\* answers to the flat "What kind of change are you making?" prompt: nothing
\* ticked, or the first k labels ticked, for k up to MaxCats
CategoryAnswers ==
  { SubSeq(allCategoriesOfChange, 1, k) :
      k \in 0..Min(MaxCats, Len(allCategoriesOfChange)) }

(* ------------------------------- state -------------------------------- *)

VARIABLES
  allPackages,                  \* argument: the workspace packages
  changedPackages,              \* argument: names reported as changed
  pc,                           \* where createChangeset is suspended
  packagesToRelease,            \* result of getPackagesToRelease
  pkgsLeftToGetBumpTypeFor,     \* the working set, in insertion order
  chosenCategoryOfChangeList,
  shouldAskChangeTypes,
  pkgsThatShouldBeMajorBumped,
  releases,
  categoryOfChangeList,
  currChangesetCategoryOfChangeList,
  changesetList,
  i, j,                         \* positions of the running for-of loops
  retries,                      \* empty answers in a row to an insisting prompt
  thrown,                       \* the error createChangeset raised, or "none"
  asked,                        \* the prompts answered so far (accepted answers of
                                \* the choice prompts; summary questions unanswered)
  heard,                        \* the texts the running or last setSummary call
                                \* obtained, in order ("" from a failed editor)
  variant,                      \* which writeChangeset runs: "index" or "part_000"
  wcs,                          \* writeChangeset's argument
  wpc,                          \* where writeChangeset is suspended
  changesetID,
  files,                        \* the .changeset directory: file name -> contents
  wthrown,                      \* the error writeChangeset raised, or "none"
  calls                         \* several writeChangeset calls on one directory:
                                \* call -> its position, identifier and argument

bvars ==
  << allPackages, changedPackages, pc, packagesToRelease,
     pkgsLeftToGetBumpTypeFor, chosenCategoryOfChangeList,
     shouldAskChangeTypes, pkgsThatShouldBeMajorBumped, releases,
     categoryOfChangeList, currChangesetCategoryOfChangeList, changesetList,
     i, j, retries, thrown, asked, heard >>

wvars == << variant, wcs, wpc, changesetID, files, wthrown, calls >>

Asked(prompt, about, answer) == [prompt |-> prompt, about |-> about, answer |-> answer]

Ask(prompt, about, answer) == asked' = Append(asked, Asked(prompt, about, answer))

(* ----------------------- getPackagesToRelease ------------------------- *)

ChangedLabel == "changed packages"
UnchangedLabel == "unchanged packages"
AllLabel == "all packages"

\* the names of allPackages that are not in changedPackages
unchangedPackagesNames(changed, pkgs) ==
  SelectSeq(Names(pkgs), LAMBDA name : name \notin Range(changed))

\* the two groups offered, a group without choices dropped
defaultChoiceList(changed, pkgs) ==
  SelectSeq(
    << [name |-> ChangedLabel, choices |-> changed],
       [name |-> UnchangedLabel, choices |-> unchangedPackagesNames(changed, pkgs)] >>,
    LAMBDA g : Len(g.choices) # 0)

\* the selection without the two group labels
WithoutGroupLabels(selection) ==
  SelectSeq(selection, LAMBDA x : x # ChangedLabel /\ x # UnchangedLabel)

\* x.filter(x => x !== "all packages")
WithoutAllLabel(selection) ==
  SelectSeq(selection, LAMBDA x : x # AllLabel)

\* new Set(list), in insertion order
RECURSIVE OrderedSet(_)
OrderedSet(s) ==
  IF s = <<>> THEN <<>>
  ELSE LET front == OrderedSet(SubSeq(s, 1, Len(s) - 1))
           last == s[Len(s)]
       IN IF last \in Range(front) THEN front ELSE Append(front, last)

\* a delete that removes nothing
SetDelete_keeps(set, x) == set

\* set.delete(x)
SetDelete(set, x) == SelectSeq(set, LAMBDA y : y # x)

\* pkgJsonsByName.has(name)
HasPkgJson(name) == \E k \in 1..Len(allPackages) : allPackages[k].name = name

\* pkgJsonsByName.get(name), for a name the map has
PkgJson(name) ==
  allPackages[CHOOSE k \in 1..Len(allPackages) :
                /\ allPackages[k].name = name
                /\ \A l \in (k + 1)..Len(allPackages) : allPackages[l].name # name]

(* --------------------------- createChangeset -------------------------- *)

\* the value of wcs while writeChangeset has not been called
NoChangeset == [summary |-> "", releases |-> <<>>, categoryOfChangeList |-> <<>>]

Init ==
  /\ allPackages \in Workspaces
  /\ changedPackages \in ChangedLists(allPackages)
  /\ pc = "start"
  /\ packagesToRelease = <<>>
  /\ pkgsLeftToGetBumpTypeFor = <<>>
  /\ chosenCategoryOfChangeList = <<>>
  /\ shouldAskChangeTypes = FALSE
  /\ pkgsThatShouldBeMajorBumped = <<>>
  /\ releases = <<>>
  /\ categoryOfChangeList = <<>>
  /\ currChangesetCategoryOfChangeList = <<>>
  /\ changesetList = <<>>
  /\ i = 1
  /\ j = 1
  /\ retries = 0
  /\ thrown = "none"
  /\ asked = <<>>
  /\ heard = <<>>
  /\ variant = "index"
  /\ wcs = NoChangeset
  /\ wpc = "idle"
  /\ changesetID = ""
  /\ files = << >>
  /\ wthrown = "none"
  /\ calls = << >>

\* createChangeset is called: the branch on the size of the workspace
Enter ==
  /\ pc = "start"
  /\ pc' = IF Len(allPackages) > 1 THEN "askPackages" ELSE "askList"
  /\ UNCHANGED << allPackages, changedPackages, packagesToRelease,
                  pkgsLeftToGetBumpTypeFor, chosenCategoryOfChangeList,
                  shouldAskChangeTypes, pkgsThatShouldBeMajorBumped, releases,
                  categoryOfChangeList, currChangesetCategoryOfChangeList,
                  changesetList, i, j, retries, thrown, asked, heard, wvars >>

\* chooseAtLeastOne without its loop: an empty selection is accepted
AskInitialRelease_acceptsEmpty ==
  /\ pc = "askPackages"
  /\ \E selectedItems \in CheckboxAnswers(defaultChoiceList(changedPackages, allPackages)) :
       /\ retries' = 0
       /\ Ask("packages", defaultChoiceList(changedPackages, allPackages), selectedItems)
       /\ packagesToRelease' = WithoutGroupLabels(selectedItems)
       /\ pkgsLeftToGetBumpTypeFor' = OrderedSet(WithoutGroupLabels(selectedItems))
       /\ pc' = "askCategories"
  /\ UNCHANGED << allPackages, changedPackages, chosenCategoryOfChangeList,
                  shouldAskChangeTypes, pkgsThatShouldBeMajorBumped, releases,
                  categoryOfChangeList, currChangesetCategoryOfChangeList,
                  changesetList, i, j, thrown, heard, wvars >>

\* getPackagesToRelease: one round of chooseAtLeastOne
AskInitialRelease ==
  /\ pc = "askPackages"
  /\ \E selectedItems \in CheckboxAnswers(defaultChoiceList(changedPackages, allPackages)) :
       IF Len(selectedItems) = 0
          THEN /\ retries < MaxRetries
               /\ retries' = retries + 1
               /\ UNCHANGED << pc, packagesToRelease, pkgsLeftToGetBumpTypeFor, asked >>
          ELSE /\ retries' = 0
               /\ Ask("packages", defaultChoiceList(changedPackages, allPackages), selectedItems)
               /\ packagesToRelease' = WithoutGroupLabels(selectedItems)
               /\ pkgsLeftToGetBumpTypeFor' = OrderedSet(WithoutGroupLabels(selectedItems))
               /\ pc' = "askCategories"
  /\ UNCHANGED << allPackages, changedPackages, chosenCategoryOfChangeList,
                  shouldAskChangeTypes, pkgsThatShouldBeMajorBumped, releases,
                  categoryOfChangeList, currChangesetCategoryOfChangeList,
                  changesetList, i, j, thrown, heard, wvars >>

\* "What kind of change are you making?", then the choices of the major
\* prompt are built, which reads the version of every package to release
AskCategories ==
  /\ pc = "askCategories"
  /\ \E chosen \in CategoryAnswers :
       /\ Ask("categories", <<>>, chosen)
       /\ chosenCategoryOfChangeList' = chosen
       /\ shouldAskChangeTypes' = (Len(chosen) > 0)
  /\ IF \A k \in 1..Len(packagesToRelease) : HasPkgJson(packagesToRelease[k])
     THEN pc' = "askMajor" /\ thrown' = thrown
     ELSE pc' = "threw" /\ thrown' = "TypeError"
  /\ UNCHANGED << allPackages, changedPackages, packagesToRelease,
                  pkgsLeftToGetBumpTypeFor, pkgsThatShouldBeMajorBumped, releases,
                  categoryOfChangeList, currChangesetCategoryOfChangeList,
                  changesetList, i, j, retries, heard, wvars >>

\* "Which packages should have a major bump?"
AskMajor ==
  /\ pc = "askMajor"
  /\ \E answer \in CheckboxAnswers(<< [name |-> AllLabel, choices |-> packagesToRelease] >>) :
       /\ Ask("major", packagesToRelease, answer)
       /\ pkgsThatShouldBeMajorBumped' = WithoutAllLabel(answer)
  /\ i' = 1
  /\ pc' = "majorLoop"
  /\ UNCHANGED << allPackages, changedPackages, packagesToRelease,
                  pkgsLeftToGetBumpTypeFor, chosenCategoryOfChangeList,
                  shouldAskChangeTypes, releases, categoryOfChangeList,
                  currChangesetCategoryOfChangeList, changesetList, j, retries,
                  thrown, heard, wvars >>

\* one pass of the loop over pkgsThatShouldBeMajorBumped
ConfirmMajorStep ==
  /\ pc = "majorLoop"
  /\ i <= Len(pkgsThatShouldBeMajorBumped)
  /\ LET pkgName == pkgsThatShouldBeMajorBumped[i] IN
     \E shouldReleaseFirstMajor \in BOOLEAN :
       /\ IF NeedsMajorConfirm(PkgJson(pkgName))
          THEN Ask("confirmMajor", pkgName, shouldReleaseFirstMajor)
          ELSE shouldReleaseFirstMajor = TRUE /\ asked' = asked
       /\ IF shouldReleaseFirstMajor
          THEN /\ pkgsLeftToGetBumpTypeFor' = SetDelete(pkgsLeftToGetBumpTypeFor, pkgName)
               /\ releases' = Append(releases, [name |-> pkgName, type |-> "major"])
          ELSE UNCHANGED << pkgsLeftToGetBumpTypeFor, releases >>
  /\ i' = i + 1
  /\ UNCHANGED << allPackages, changedPackages, pc, packagesToRelease,
                  chosenCategoryOfChangeList, shouldAskChangeTypes,
                  pkgsThatShouldBeMajorBumped, categoryOfChangeList,
                  currChangesetCategoryOfChangeList, changesetList, j, retries,
                  thrown, heard, wvars >>

\* the minor prompt issued whatever is left in the working set
MajorDone_alwaysAsks ==
  /\ pc = "majorLoop"
  /\ i > Len(pkgsThatShouldBeMajorBumped)
  /\ pc' = "askMinor"
  /\ UNCHANGED << allPackages, changedPackages, packagesToRelease,
                  pkgsLeftToGetBumpTypeFor, chosenCategoryOfChangeList,
                  shouldAskChangeTypes, pkgsThatShouldBeMajorBumped, releases,
                  categoryOfChangeList, currChangesetCategoryOfChangeList,
                  changesetList, i, j, retries, thrown, asked, heard, wvars >>

\* the loop is over: the minor prompt is issued only for a non-empty working set
MajorDone ==
  /\ pc = "majorLoop"
  /\ i > Len(pkgsThatShouldBeMajorBumped)
  /\ pc' = IF Len(pkgsLeftToGetBumpTypeFor) # 0 THEN "askMinor" ELSE "patch"
  /\ UNCHANGED << allPackages, changedPackages, packagesToRelease,
                  pkgsLeftToGetBumpTypeFor, chosenCategoryOfChangeList,
                  shouldAskChangeTypes, pkgsThatShouldBeMajorBumped, releases,
                  categoryOfChangeList, currChangesetCategoryOfChangeList,
                  changesetList, i, j, retries, thrown, asked, heard, wvars >>

\* a release pushed under a name other than the selected package
ReleasesOf_renamed(names, type) == [k \in 1..Len(names) |-> [name |-> Outsider, type |-> type]]

\* the releases pushed by a loop over names, all of one type
ReleasesOf(names, type) == [k \in 1..Len(names) |-> [name |-> names[k], type |-> type]]

\* the working set after deleting every name of a list
RECURSIVE DeleteAll(_, _)
DeleteAll(set, names) ==
  IF names = <<>> THEN set ELSE DeleteAll(SetDelete(set, Head(names)), Tail(names))

\* "Which packages should have a minor bump?" and the loop over the answer
AskMinor ==
  /\ pc = "askMinor"
  /\ \E answer \in CheckboxAnswers(<< [name |-> AllLabel, choices |-> pkgsLeftToGetBumpTypeFor] >>) :
       /\ Ask("minor", pkgsLeftToGetBumpTypeFor, answer)
       /\ pkgsLeftToGetBumpTypeFor' = DeleteAll(pkgsLeftToGetBumpTypeFor, WithoutAllLabel(answer))
       /\ releases' = releases \o ReleasesOf(WithoutAllLabel(answer), "minor")
  /\ pc' = "patch"
  /\ UNCHANGED << allPackages, changedPackages, packagesToRelease,
                  chosenCategoryOfChangeList, shouldAskChangeTypes,
                  pkgsThatShouldBeMajorBumped, categoryOfChangeList,
                  currChangesetCategoryOfChangeList, changesetList, i, j,
                  retries, thrown, heard, wvars >>

\* every package still in the working set is patch bumped
AssignPatch ==
  /\ pc = "patch"
  /\ releases' = releases \o ReleasesOf(pkgsLeftToGetBumpTypeFor, "patch")
  /\ pc' = IF shouldAskChangeTypes THEN "askReuse" ELSE "collect"
  /\ UNCHANGED << allPackages, changedPackages, packagesToRelease,
                  pkgsLeftToGetBumpTypeFor, chosenCategoryOfChangeList,
                  shouldAskChangeTypes, pkgsThatShouldBeMajorBumped,
                  categoryOfChangeList, currChangesetCategoryOfChangeList,
                  changesetList, i, j, retries, thrown, asked, heard, wvars >>

\* new Set(releases.map(rel => rel.type))
bumpTypes == OrderedSet([k \in 1..Len(releases) |-> releases[k].type])

\* "Would you like to reuse the same message for all packages of this bump type?"
AskReuse ==
  /\ pc = "askReuse"
  /\ \E isSameMessageForAllPkgs \in BOOLEAN :
       /\ Ask("reuse", <<>>, isSameMessageForAllPkgs)
       /\ pc' = IF isSameMessageForAllPkgs THEN "describeShared" ELSE "describeEach"
  /\ i' = 1
  /\ j' = 1
  /\ currChangesetCategoryOfChangeList' = <<>>
  /\ UNCHANGED << allPackages, changedPackages, packagesToRelease,
                  pkgsLeftToGetBumpTypeFor, chosenCategoryOfChangeList,
                  shouldAskChangeTypes, pkgsThatShouldBeMajorBumped, releases,
                  categoryOfChangeList, changesetList, retries, thrown, heard, wvars >>

\* reuse: one description per (bump type, chosen category)
AskSharedDescription ==
  /\ pc = "describeShared"
  /\ i <= Len(bumpTypes)
  /\ LET category == chosenCategoryOfChangeList[j] IN
     \E description \in Descriptions :
       /\ Ask("describe", <<bumpTypes[i], getKindTitle(category)>>, description)
       /\ categoryOfChangeList' =
            Append(categoryOfChangeList, [description |-> description, category |-> category])
  /\ IF j < Len(chosenCategoryOfChangeList)
     THEN j' = j + 1 /\ i' = i
     ELSE j' = 1 /\ i' = i + 1
  /\ UNCHANGED << allPackages, changedPackages, pc, packagesToRelease,
                  pkgsLeftToGetBumpTypeFor, chosenCategoryOfChangeList,
                  shouldAskChangeTypes, pkgsThatShouldBeMajorBumped, releases,
                  currChangesetCategoryOfChangeList, changesetList, retries,
                  thrown, heard, wvars >>

\* the shared releases array pushed in place of the one release
ReleaseChangeset_allReleases(release, curr) ==
  [confirmed |-> TRUE,
   summary |-> "",
   categoryOfChangeList |-> curr,
   releases |-> releases]

\* the changeset pushed for one release when the message is not reused
ReleaseChangeset(release, curr) ==
  [confirmed |-> TRUE,
   summary |-> "",
   categoryOfChangeList |-> curr,
   releases |-> <<release>>]

\* no reuse: one description per (release, chosen category); the release's
\* changeset is pushed after its last description
AskReleaseDescription ==
  /\ pc = "describeEach"
  /\ i <= Len(releases)
  /\ LET category == chosenCategoryOfChangeList[j] IN
     \E description \in Descriptions :
       LET curr == Append(currChangesetCategoryOfChangeList,
                          [description |-> description, category |-> category])
       IN /\ Ask("describe", <<releases[i].name, getKindTitle(category)>>, description)
          /\ IF j < Len(chosenCategoryOfChangeList)
             THEN /\ currChangesetCategoryOfChangeList' = curr
                  /\ j' = j + 1
                  /\ i' = i
                  /\ changesetList' = changesetList
             ELSE /\ currChangesetCategoryOfChangeList' = <<>>
                  /\ j' = 1
                  /\ i' = i + 1
                  /\ changesetList' =
                       Append(changesetList, ReleaseChangeset(releases[i], curr))
  /\ UNCHANGED << allPackages, changedPackages, pc, packagesToRelease,
                  pkgsLeftToGetBumpTypeFor, chosenCategoryOfChangeList,
                  shouldAskChangeTypes, pkgsThatShouldBeMajorBumped, releases,
                  categoryOfChangeList, retries, thrown, heard, wvars >>

\* either description loop is over
DescribeDone ==
  /\ \/ pc = "describeShared" /\ i > Len(bumpTypes)
     \/ pc = "describeEach" /\ i > Len(releases)
  /\ pc' = "collect"
  /\ UNCHANGED << allPackages, changedPackages, packagesToRelease,
                  pkgsLeftToGetBumpTypeFor, chosenCategoryOfChangeList,
                  shouldAskChangeTypes, pkgsThatShouldBeMajorBumped, releases,
                  categoryOfChangeList, currChangesetCategoryOfChangeList,
                  changesetList, i, j, retries, thrown, asked, heard, wvars >>

\* the list prompt with its answer dropped: the release is always a patch
AskList_patch ==
  /\ pc = "askList"
  /\ LET pkg == allPackages[1] IN
     \E type \in { "patch", "minor", "major" } :
       /\ Ask("list", pkg.name, type)
       /\ IF type = "major" /\ NeedsMajorConfirm(pkg)
          THEN pc' = "confirmSingle" /\ releases' = releases
          ELSE /\ pc' = "collect"
               /\ releases' = Append(releases, [name |-> pkg.name, type |-> "patch"])
  /\ UNCHANGED << allPackages, changedPackages, packagesToRelease,
                  pkgsLeftToGetBumpTypeFor, chosenCategoryOfChangeList,
                  shouldAskChangeTypes, pkgsThatShouldBeMajorBumped,
                  categoryOfChangeList, currChangesetCategoryOfChangeList,
                  changesetList, i, j, retries, thrown, heard, wvars >>

\* single package: "What kind of change is this for ...?"
AskList ==
  /\ pc = "askList"
  /\ LET pkg == allPackages[1] IN
     \E type \in { "patch", "minor", "major" } :
       /\ Ask("list", pkg.name, type)
       /\ IF type = "major" /\ NeedsMajorConfirm(pkg)
          THEN pc' = "confirmSingle" /\ releases' = releases
          ELSE /\ pc' = "collect"
               /\ releases' = Append(releases, [name |-> pkg.name, type |-> type])
  /\ UNCHANGED << allPackages, changedPackages, packagesToRelease,
                  pkgsLeftToGetBumpTypeFor, chosenCategoryOfChangeList,
                  shouldAskChangeTypes, pkgsThatShouldBeMajorBumped,
                  categoryOfChangeList, currChangesetCategoryOfChangeList,
                  changesetList, i, j, retries, thrown, heard, wvars >>

\* the answer to the confirmation ignored
ConfirmSingle_goesOn ==
  /\ pc = "confirmSingle"
  /\ LET pkg == allPackages[1] IN
     \E shouldReleaseAsMajor \in BOOLEAN :
       /\ Ask("confirmMajor", pkg.name, shouldReleaseAsMajor)
       /\ releases' = Append(releases, [name |-> pkg.name, type |-> "major"])
       /\ pc' = "collect"
       /\ thrown' = thrown
  /\ UNCHANGED << allPackages, changedPackages, packagesToRelease,
                  pkgsLeftToGetBumpTypeFor, chosenCategoryOfChangeList,
                  shouldAskChangeTypes, pkgsThatShouldBeMajorBumped,
                  categoryOfChangeList, currChangesetCategoryOfChangeList,
                  changesetList, i, j, retries, heard, wvars >>

\* single package: the first-major-release confirmation
ConfirmSingle ==
  /\ pc = "confirmSingle"
  /\ LET pkg == allPackages[1] IN
     \E shouldReleaseAsMajor \in BOOLEAN :
       /\ Ask("confirmMajor", pkg.name, shouldReleaseAsMajor)
       /\ IF shouldReleaseAsMajor
          THEN /\ releases' = Append(releases, [name |-> pkg.name, type |-> "major"])
               /\ pc' = "collect"
               /\ thrown' = thrown
          ELSE /\ releases' = releases
               /\ pc' = "threw"
               /\ thrown' = "ExitError"
  /\ UNCHANGED << allPackages, changedPackages, packagesToRelease,
                  pkgsLeftToGetBumpTypeFor, chosenCategoryOfChangeList,
                  shouldAskChangeTypes, pkgsThatShouldBeMajorBumped,
                  categoryOfChangeList, currChangesetCategoryOfChangeList,
                  changesetList, i, j, retries, heard, wvars >>

\* the default changeset pushed as already confirmed
Collect_confirmed ==
  /\ pc = "collect"
  /\ changesetList' =
       IF ~shouldAskChangeTypes
       THEN Append(changesetList,
                   [confirmed |-> TRUE,
                    summary |-> "",
                    categoryOfChangeList |-> <<>>,
                    releases |-> releases])
       ELSE changesetList
  /\ i' = 1
  /\ pc' = "setSummary"
  /\ UNCHANGED << allPackages, changedPackages, packagesToRelease,
                  pkgsLeftToGetBumpTypeFor, chosenCategoryOfChangeList,
                  shouldAskChangeTypes, pkgsThatShouldBeMajorBumped, releases,
                  categoryOfChangeList, currChangesetCategoryOfChangeList,
                  j, retries, thrown, asked, heard, wvars >>

\* the changeset pushed when no category was chosen
Collect ==
  /\ pc = "collect"
  /\ changesetList' =
       IF ~shouldAskChangeTypes
       THEN Append(changesetList,
                   [confirmed |-> FALSE,
                    summary |-> "",
                    categoryOfChangeList |-> <<>>,
                    releases |-> releases])
       ELSE changesetList
  /\ i' = 1
  /\ pc' = "setSummary"
  /\ UNCHANGED << allPackages, changedPackages, packagesToRelease,
                  pkgsLeftToGetBumpTypeFor, chosenCategoryOfChangeList,
                  shouldAskChangeTypes, pkgsThatShouldBeMajorBumped, releases,
                  categoryOfChangeList, currChangesetCategoryOfChangeList,
                  j, retries, thrown, asked, heard, wvars >>

(* ------------------------------ setSummary ---------------------------- *)

\* what cli.askQuestionWithEditor can do: raise, or return a text
EditorOutcomes ==
  { [raised |-> TRUE, text |-> ""] } \cup { [raised |-> FALSE, text |-> t] : t \in EditorTexts }

\* the assignment of the summary left out
SetSummaryOf_confirmedOnly(list, k, summary, confirmed) ==
  [list EXCEPT ![k] = [@ EXCEPT !.confirmed = confirmed]]

\* the assignment of the confirmed flag left out
SetSummaryOf_summaryOnly(list, k, summary, confirmed) ==
  [list EXCEPT ![k] = [@ EXCEPT !.summary = summary]]

\* changeSet.summary = summary; changeSet.confirmed = confirmed
SetSummaryOf(list, k, summary, confirmed) ==
  [list EXCEPT ![k] = [@ EXCEPT !.summary = summary, !.confirmed = confirmed]]

\* setSummary up to its second await: the "Summary" question and, for an
\* empty answer, the external editor
AskSummary ==
  /\ pc = "setSummary"
  /\ i <= Len(changesetList)
  /\ asked' = Append(asked, [prompt |-> "Summary", about |-> i])
  /\ \E summary \in SummaryTexts :
       IF summary # ""
       THEN /\ changesetList' = SetSummaryOf(changesetList, i, summary, FALSE)
            /\ heard' = << summary >>
            /\ i' = i + 1
            /\ pc' = pc
       ELSE \E editor \in EditorOutcomes :
              /\ heard' = << summary, editor.text >>
              /\ IF ~editor.raised /\ editor.text # ""
                 THEN /\ changesetList' = SetSummaryOf(changesetList, i, editor.text, TRUE)
                      /\ i' = i + 1
                      /\ pc' = pc
                 ELSE /\ changesetList' = changesetList
                      /\ i' = i
                      /\ pc' = "summaryFallback"
  /\ UNCHANGED << allPackages, changedPackages, packagesToRelease,
                  pkgsLeftToGetBumpTypeFor, chosenCategoryOfChangeList,
                  shouldAskChangeTypes, pkgsThatShouldBeMajorBumped, releases,
                  categoryOfChangeList, currChangesetCategoryOfChangeList,
                  j, retries, thrown, wvars >>

\* the fallback question storing whatever it is answered
AskSummaryFallback_takesEmpty ==
  /\ pc = "summaryFallback"
  /\ \E summary \in SummaryTexts :
       /\ heard' = Append(heard, summary)
       /\ changesetList' = SetSummaryOf(changesetList, i, summary, FALSE)
       /\ i' = i + 1
       /\ pc' = "setSummary"
  /\ UNCHANGED << allPackages, changedPackages, packagesToRelease,
                  pkgsLeftToGetBumpTypeFor, chosenCategoryOfChangeList,
                  shouldAskChangeTypes, pkgsThatShouldBeMajorBumped, releases,
                  categoryOfChangeList, currChangesetCategoryOfChangeList,
                  j, retries, thrown, asked, wvars >>

\* the question asked after the editor gave nothing: askQuestion("")
AskSummaryFallback ==
  /\ pc = "summaryFallback"
  /\ \E summary \in SummaryTexts :
       /\ heard' = Append(heard, summary)
       /\ IF summary # ""
          THEN /\ changesetList' = SetSummaryOf(changesetList, i, summary, FALSE)
               /\ i' = i + 1
               /\ pc' = "setSummary"
          ELSE /\ changesetList' = changesetList
               /\ i' = i
               /\ pc' = "summaryRequired"
  /\ UNCHANGED << allPackages, changedPackages, packagesToRelease,
                  pkgsLeftToGetBumpTypeFor, chosenCategoryOfChangeList,
                  shouldAskChangeTypes, pkgsThatShouldBeMajorBumped, releases,
                  categoryOfChangeList, currChangesetCategoryOfChangeList,
                  j, retries, thrown, asked, wvars >>

\* one round of the loop "A summary is required for the changelog!"
AskSummaryRequired ==
  /\ pc = "summaryRequired"
  /\ \E summary \in SummaryTexts :
       /\ heard' = Append(heard, summary)
       /\ IF summary # ""
          THEN /\ changesetList' = SetSummaryOf(changesetList, i, summary, FALSE)
               /\ i' = i + 1
               /\ retries' = 0
               /\ pc' = "setSummary"
          ELSE /\ retries < MaxRetries
               /\ retries' = retries + 1
               /\ changesetList' = changesetList
               /\ i' = i
               /\ pc' = pc
  /\ UNCHANGED << allPackages, changedPackages, packagesToRelease,
                  pkgsLeftToGetBumpTypeFor, chosenCategoryOfChangeList,
                  shouldAskChangeTypes, pkgsThatShouldBeMajorBumped, releases,
                  categoryOfChangeList, currChangesetCategoryOfChangeList,
                  j, thrown, asked, wvars >>

\* return changesetList
Return ==
  /\ pc = "setSummary"
  /\ i > Len(changesetList)
  /\ pc' = "returned"
  /\ UNCHANGED << allPackages, changedPackages, packagesToRelease,
                  pkgsLeftToGetBumpTypeFor, chosenCategoryOfChangeList,
                  shouldAskChangeTypes, pkgsThatShouldBeMajorBumped, releases,
                  categoryOfChangeList, currChangesetCategoryOfChangeList,
                  changesetList, i, j, retries, thrown, asked, heard, wvars >>

(* ---------------------------- text values ----------------------------- *)

\* A string is the sequence of its lines and a line the sequence of the
\* pieces concatenated into it, so "" is one empty line.
Str(piece) == << <<piece>> >>
Empty == << <<>> >>
NL == << <<>>, <<>> >>

\* a + b
Cat(a, b) ==
  SubSeq(a, 1, Len(a) - 1) \o << a[Len(a)] \o b[1] >> \o SubSeq(b, 2, Len(b))

\* parts[1] + parts[2] + ...
RECURSIVE CatAll(_)
CatAll(parts) ==
  IF parts = <<>> THEN Empty ELSE Cat(Head(parts), CatAll(Tail(parts)))

\* parts.join("\n")
RECURSIVE JoinNL(_)
JoinNL(parts) ==
  IF parts = <<>> THEN Empty
  ELSE IF Len(parts) = 1 THEN parts[1]
  ELSE CatAll(<< parts[1], NL, JoinNL(Tail(parts)) >>)

(* ------------------- packages/write/src/index.ts ---------------------- *)

\* the buckets listed with minor ahead of major
BumpBuckets_minorFirst == << "minor", "major", "patch", "none" >>

\* the keys of the object groupByBumpType returns, in Object.entries order
BumpBuckets == << "major", "minor", "patch", "none" >>

\* a release of another type pushed to the none bucket
BucketOf_none(rel) ==
  IF rel.type = "major" THEN "major"
  ELSE IF rel.type = "minor" THEN "minor"
  ELSE IF rel.type = "patch" THEN "patch"
  ELSE "none"

\* the bucket a release is pushed to
BucketOf(rel) ==
  IF rel.type = "major" THEN "major"
  ELSE IF rel.type = "minor" THEN "minor"
  ELSE IF rel.type = "patch" THEN "patch"
  ELSE "major"

\* Object.entries(groupByBumpType(releases))
groupByBumpType(rels) ==
  [b \in 1..Len(BumpBuckets) |->
     [bumpType |-> BumpBuckets[b],
      releases |-> SelectSeq(rels, LAMBDA rel : BucketOf(rel) = BumpBuckets[b])]]

\* `"${release.name}": ${release.type}`
ReleaseLine(release) == << << "\"", release.name, "\": ", release.type >> >>

\* releases.map(release => `"${release.name}": ${release.type}`)
ReleaseLines(rels) == [k \in 1..Len(rels) |-> ReleaseLine(rels[k])]

\* `---\n${lines}\n---\n`
getReleasesSection(rels) ==
  CatAll(<< Str("---"), NL, JoinNL(ReleaseLines(rels)), NL, Str("---"), NL >>)

\* `- [ ${getKindTitle(chk.category)} ] ${chk.description}`
ChangeTypeLine(chk) ==
  << << "- [ ", getKindTitle(chk.category), " ] ", chk.description >> >>

\* filtered.map(chk => `- [ ${...} ] ${chk.description}`)
ChangeTypeLines(list) == [k \in 1..Len(list) |-> ChangeTypeLine(list[k])]

\* the bumpType argument left out
Undefined == "undefined"

\* ({ type }) => type === bumpType, for an entry that may carry no type
TypeIs(chk, bumpType) == "type" \in DOMAIN chk /\ chk.type = bumpType

getChangeTypesSection(changeTypes, bumpType) ==
  LET filtered == IF bumpType # Undefined
                  THEN SelectSeq(changeTypes, LAMBDA chk : TypeIs(chk, bumpType))
                  ELSE changeTypes
  IN Cat(JoinNL(ChangeTypeLines(filtered)), NL)

\* one grouped block: section, "\n", the change types of the bump type
GroupedBlock(g, list) ==
  CatAll(<< getReleasesSection(g.releases), NL, getChangeTypesSection(list, g.bumpType) >>)

getReleasesAndChangeTypes(rels, list, splitReleasesByBumpType) ==
  IF splitReleasesByBumpType /\ Len(list) # 0
  THEN LET grouped == SelectSeq(groupByBumpType(rels), LAMBDA g : Len(g.releases) # 0)
       IN JoinNL([k \in 1..Len(grouped) |-> GroupedBlock(grouped[k], list)])
  ELSE IF Len(list) # 0
  THEN CatAll(<< getReleasesSection(rels), Str(" "), NL, Str("  "),
                 getChangeTypesSection(list, Undefined) >>)
  ELSE getReleasesSection(rels)

\* changesetContents of writeChangeset; the split flag is left at its default
changesetContents(changeset) ==
  CatAll(<< getReleasesAndChangeTypes(changeset.releases, changeset.categoryOfChangeList, FALSE),
            NL, NL, Str(changeset.summary), NL, Str("  ") >>)

(* ------------------------- unnamed/part_000 --------------------------- *)

\* `---\n${lines}\n---`
getReleasesSection_p0(rels) ==
  CatAll(<< Str("---"), NL, JoinNL(ReleaseLines(rels)), NL, Str("---") >>)

getChangeTypesSection_p0(changeTypes, bumpType) ==
  JoinNL(ChangeTypeLines(SelectSeq(changeTypes, LAMBDA chk : TypeIs(chk, bumpType))))

\* one block: section, " \n", the change types of the bump type
GroupedBlock_p0(g, list) ==
  CatAll(<< getReleasesSection_p0(g.releases), Str(" "), NL,
            getChangeTypesSection_p0(list, g.bumpType) >>)

releasesGroupedByBumpTypes_p0(rels, list) ==
  LET grouped == SelectSeq(groupByBumpType(rels), LAMBDA g : Len(g.releases) # 0)
  IN JoinNL([k \in 1..Len(grouped) |-> GroupedBlock_p0(grouped[k], list)])

changesetContents_p0(changeset) ==
  CatAll(<< IF Len(changeset.categoryOfChangeList) # 0
            THEN releasesGroupedByBumpTypes_p0(changeset.releases, changeset.categoryOfChangeList)
            ELSE getReleasesSection_p0(changeset.releases),
            NL, NL, Str(changeset.summary), NL, Str("  ") >>)

(* --------------------------- writeChangeset --------------------------- *)

\* a piece prettier treats as white space
IsBlankPiece(p) == p \in { "", " ", "  " }

RECURSIVE TrimLeft(_)
TrimLeft(line) ==
  IF line # <<>> /\ IsBlankPiece(Head(line)) THEN TrimLeft(Tail(line)) ELSE line

RECURSIVE TrimRight(_)
TrimRight(line) ==
  IF line # <<>> /\ IsBlankPiece(line[Len(line)])
  THEN TrimRight(SubSeq(line, 1, Len(line) - 1))
  ELSE line

TrimLine(line) == TrimRight(TrimLeft(line))

\* runs of blank lines collapsed to one, leading blank lines dropped
RECURSIVE Squeeze(_, _)
Squeeze(lines, afterBlank) ==
  IF lines = <<>> THEN <<>>
  ELSE IF Head(lines) = <<>>
  THEN (IF afterBlank THEN <<>> ELSE << <<>> >>) \o Squeeze(Tail(lines), TRUE)
  ELSE << Head(lines) >> \o Squeeze(Tail(lines), FALSE)

RECURSIVE DropTrailingBlank(_)
DropTrailingBlank(lines) ==
  IF lines # <<>> /\ lines[Len(lines)] = <<>>
  THEN DropTrailingBlank(SubSeq(lines, 1, Len(lines) - 1))
  ELSE lines

\* prettier.format(contents, { parser: "markdown" }), as far as white space
\* goes: lines trimmed, blank runs collapsed, one final newline
Format(contents) ==
  DropTrailingBlank(Squeeze([k \in 1..Len(contents) |-> TrimLine(contents[k])], TRUE))
    \o << <<>> >>

\* the contents the running variant renders for a changeset
Render(v, changeset) ==
  IF v = "index" THEN changesetContents(changeset) ELSE changesetContents_p0(changeset)

\* whether the running variant takes its branch of per-bump-type blocks:
\* index.ts needs its split flag, which writeChangeset never passes
RendersGrouped(v, changeset) ==
  IF v = "index"
  THEN FALSE /\ Len(changeset.categoryOfChangeList) # 0
  ELSE Len(changeset.categoryOfChangeList) # 0

\* humanId({ separator: "-", capitalize: false })
Ids == { "calm-owls-jump", "tidy-bees-wave" }

\* writeChangeset up to its first await: the identifier is generated
WGenerateId ==
  /\ wpc = "called"
  /\ \E id \in Ids : changesetID' = id
  /\ wpc' = "resolveConfig"
  /\ UNCHANGED << bvars, variant, wcs, files, wthrown, calls >>

\* a failure of prettier.format that does not stop the call
WFormat_writesAnyway ==
  /\ wpc = "resolveConfig"
  /\ \E formatRaises \in BOOLEAN :
       /\ wpc' = "writeFile"
       /\ wthrown' = IF formatRaises THEN "FormatError" ELSE wthrown
  /\ UNCHANGED << bvars, variant, wcs, changesetID, files, calls >>

\* prettier.resolveConfig resolved: the contents are rendered and formatted,
\* and fs.writeFile is called unless prettier.format raised
WFormat ==
  /\ wpc = "resolveConfig"
  /\ \E formatRaises \in BOOLEAN :
       IF formatRaises
       THEN wpc' = "threw" /\ wthrown' = "FormatError"
       ELSE wpc' = "writeFile" /\ wthrown' = wthrown
  /\ UNCHANGED << bvars, variant, wcs, changesetID, files, calls >>

\* fs.writeFile completed; the identifier is returned
WWriteFile ==
  /\ wpc = "writeFile"
  /\ files' = (changesetID :> Format(Render(variant, wcs))) @@ files
  /\ wpc' = "returned"
  /\ UNCHANGED << bvars, variant, wcs, changesetID, wthrown, calls >>

(* --------------------- inputs of writeChangeset alone ------------------ *)

ReleaseTypes == { "major", "minor", "patch", "none" }

\* releases of the first k pool packages, every assignment of types
WriterReleases ==
  UNION { { [n \in 1..k |-> [name |-> PkgPool[n].name, type |-> t[n]]] :
              t \in [1..k -> ReleaseTypes] } :
          k \in 0..Min(MaxReleases, Len(PkgPool)) }

\* entries as the builder pushes them, and entries that carry a type
WriterEntries ==
  { [description |-> d, category |-> c] :
      d \in Descriptions, c \in { allCategoriesOfChange[1], allCategoriesOfChange[4] } }
  \cup
  { [description |-> d, category |-> allCategoriesOfChange[1], type |-> "minor"] :
      d \in Descriptions }

WriterCategoryLists == UNION { [1..k -> WriterEntries] : k \in 0..MaxEntries }

WriterChangesets ==
  { [summary |-> s, releases |-> r, categoryOfChangeList |-> l] :
      s \in SummaryTexts, r \in WriterReleases, l \in WriterCategoryLists }

InitW ==
  /\ allPackages = <<>>
  /\ changedPackages = <<>>
  /\ pc = "writer"
  /\ packagesToRelease = <<>>
  /\ pkgsLeftToGetBumpTypeFor = <<>>
  /\ chosenCategoryOfChangeList = <<>>
  /\ shouldAskChangeTypes = FALSE
  /\ pkgsThatShouldBeMajorBumped = <<>>
  /\ releases = <<>>
  /\ categoryOfChangeList = <<>>
  /\ currChangesetCategoryOfChangeList = <<>>
  /\ changesetList = <<>>
  /\ i = 1
  /\ j = 1
  /\ retries = 0
  /\ thrown = "none"
  /\ asked = <<>>
  /\ heard = <<>>
  /\ variant \in { "index", "part_000" }
  /\ wcs \in WriterChangesets
  /\ wpc = "called"
  /\ changesetID = ""
  /\ files = << >>
  /\ wthrown = "none"
  /\ calls = << >>

NextW ==
  \/ WGenerateId
  \/ WFormat
  \/ WWriteFile

(* ------------- several writeChangeset calls on one directory ---------- *)

Calls == 1..MaxCalls

\* the changesets handed to the calls
CallChangesets ==
  { [summary |-> "fix the bug",
     releases |-> << [name |-> PkgPool[1].name, type |-> "patch"] >>,
     categoryOfChangeList |-> <<>>],
    [summary |-> "",
     releases |-> << [name |-> PkgPool[1].name, type |-> "major"],
                     [name |-> PkgPool[2].name, type |-> "patch"] >>,
     categoryOfChangeList |->
       << [description |-> "new flag", category |-> allCategoriesOfChange[1]] >>] }

InitC ==
  /\ allPackages = <<>>
  /\ changedPackages = <<>>
  /\ pc = "writers"
  /\ packagesToRelease = <<>>
  /\ pkgsLeftToGetBumpTypeFor = <<>>
  /\ chosenCategoryOfChangeList = <<>>
  /\ shouldAskChangeTypes = FALSE
  /\ pkgsThatShouldBeMajorBumped = <<>>
  /\ releases = <<>>
  /\ categoryOfChangeList = <<>>
  /\ currChangesetCategoryOfChangeList = <<>>
  /\ changesetList = <<>>
  /\ i = 1
  /\ j = 1
  /\ retries = 0
  /\ thrown = "none"
  /\ asked = <<>>
  /\ heard = <<>>
  /\ variant \in { "index", "part_000" }
  /\ wcs = NoChangeset
  /\ wpc = "idle"
  /\ changesetID = ""
  /\ files = << >>
  /\ wthrown = "none"
  /\ calls = [c \in Calls |-> [wpc |-> "idle", changesetID |-> "", changeset |-> NoChangeset]]

\* a call is made and runs up to its first await: the identifier is generated
CCall(c) ==
  /\ calls[c].wpc = "idle"
  /\ \E changeset \in CallChangesets, id \in Ids :
       calls' = [calls EXCEPT ![c] =
                   [wpc |-> "resolveConfig", changesetID |-> id, changeset |-> changeset]]
  /\ UNCHANGED << bvars, variant, wcs, wpc, changesetID, files, wthrown >>

\* prettier.resolveConfig resolved for a call: format, then fs.writeFile is
\* called unless prettier.format raised
CFormat(c) ==
  /\ calls[c].wpc = "resolveConfig"
  /\ \E formatRaises \in BOOLEAN :
       calls' = [calls EXCEPT ![c].wpc = IF formatRaises THEN "threw" ELSE "writeFile"]
  /\ UNCHANGED << bvars, variant, wcs, wpc, changesetID, files, wthrown >>

\* fs.writeFile of a call completed: the file is created or replaced
CWriteFile(c) ==
  /\ calls[c].wpc = "writeFile"
  /\ files' = (calls[c].changesetID :> Format(Render(variant, calls[c].changeset))) @@ files
  /\ calls' = [calls EXCEPT ![c].wpc = "returned"]
  /\ UNCHANGED << bvars, variant, wcs, wpc, changesetID, wthrown >>

NextC == \E c \in Calls : CCall(c) \/ CFormat(c) \/ CWriteFile(c)

(* ------------------- the summary loop of createChangeset alone -------- *)

\* changesets as they can stand before setSummary runs on them
SummaryInputs ==
  { [confirmed |-> c,
     summary |-> t,
     categoryOfChangeList |-> <<>>,
     releases |-> << [name |-> PkgPool[1].name, type |-> "patch"] >>] :
      c \in BOOLEAN, t \in { "", "earlier text" } }

InitS ==
  /\ allPackages = << PkgPool[1] >>
  /\ changedPackages = <<>>
  /\ pc = "setSummary"
  /\ packagesToRelease = <<>>
  /\ pkgsLeftToGetBumpTypeFor = <<>>
  /\ chosenCategoryOfChangeList = <<>>
  /\ shouldAskChangeTypes = FALSE
  /\ pkgsThatShouldBeMajorBumped = <<>>
  /\ releases = <<>>
  /\ categoryOfChangeList = <<>>
  /\ currChangesetCategoryOfChangeList = <<>>
  /\ changesetList \in UNION { [1..n -> SummaryInputs] : n \in 1..MaxSummaries }
  /\ i = 1
  /\ j = 1
  /\ retries = 0
  /\ thrown = "none"
  /\ asked = <<>>
  /\ heard = <<>>
  /\ variant = "index"
  /\ wcs = NoChangeset
  /\ wpc = "idle"
  /\ changesetID = ""
  /\ files = << >>
  /\ wthrown = "none"
  /\ calls = << >>

NextS ==
  \/ AskSummary
  \/ AskSummaryFallback
  \/ AskSummaryRequired
  \/ Return

Builder ==
  \/ Enter
  \/ AskInitialRelease
  \/ AskCategories
  \/ AskMajor
  \/ ConfirmMajorStep
  \/ MajorDone
  \/ AskMinor
  \/ AssignPatch
  \/ AskReuse
  \/ AskSharedDescription
  \/ AskReleaseDescription
  \/ DescribeDone
  \/ AskList
  \/ ConfirmSingle
  \/ Collect
  \/ AskSummary
  \/ AskSummaryFallback
  \/ AskSummaryRequired
  \/ Return

vars == << bvars, wvars >>

Next == Builder

Spec == Init /\ [][Next]_vars

SpecW == InitW /\ [][NextW]_vars

SpecC == InitC /\ [][NextC]_vars

\* the summary loop alone; every prompt is answered in the end, and the
\* user does not answer the insisting prompt with an empty line for ever
SpecS ==
  /\ InitS
  /\ [][NextS]_vars
  /\ WF_vars(AskSummary)
  /\ WF_vars(AskSummaryFallback)
  /\ WF_vars(AskSummaryRequired)
  /\ WF_vars(Return)

(* ------------------------------ properties ---------------------------- *)

MultiPackage == Len(allPackages) > 1

\* createChangeset is past the major round, the minor round and the patch
\* assignment of the multi-package path
SeveritiesResolved ==
  /\ MultiPackage
  /\ pc \in { "askReuse", "describeShared", "describeEach", "collect",
              "setSummary", "summaryFallback", "summaryRequired", "returned" }

\* the first-major-release confirmation for a package was answered with ans
ConfirmAnswered(name, ans) ==
  \E m \in 1..Len(asked) :
    /\ asked[m].prompt = "confirmMajor"
    /\ asked[m].about = name
    /\ asked[m].answer = ans

\* the "reuse the same message" confirmation was answered with ans
ReuseAnswered(ans) ==
  \E m \in 1..Len(asked) : asked[m].prompt = "reuse" /\ asked[m].answer = ans

\* the "Summary" question of setSummary was asked
SummaryAsked == \E m \in 1..Len(asked) : asked[m].prompt = "Summary"

MinorAsked == \E m \in 1..Len(asked) : asked[m].prompt = "minor"

HasRelease(name, type) ==
  \E k \in 1..Len(releases) : releases[k].name = name /\ releases[k].type = type

\* C1: every changeset of the list createChangeset returns has a non-empty
\* summary, whichever path produced the list.
C1_SummaryNonEmpty ==
  pc = "returned" =>
    \A k \in 1..Len(changesetList) : changesetList[k].summary # ""

C1_Witness ==
  /\ pc = "returned"
  /\ shouldAskChangeTypes
  /\ Len(changesetList) >= 2
  /\ \E k \in 1..Len(changesetList) : changesetList[k].summary = "from editor"

\* C2: once the major round, the minor round and the patch assignment have
\* run, every candidate package is the name of exactly one release, every
\* release names a candidate, and its type is major, minor or patch.
C2_Partition ==
  SeveritiesResolved =>
    /\ \A n \in Range(packagesToRelease) :
         Cardinality({ k \in 1..Len(releases) : releases[k].name = n }) = 1
    /\ \A k \in 1..Len(releases) :
         /\ releases[k].name \in Range(packagesToRelease)
         /\ releases[k].type \in { "major", "minor", "patch" }

C2_Witness ==
  /\ SeveritiesResolved
  /\ pc = "returned"
  /\ \A t \in { "major", "minor", "patch" } :
       \E k \in 1..Len(releases) : releases[k].type = t

\* C3: in the multi-package path a package below 1.0.0 is released as major
\* only after its confirmation was answered yes; a package whose confirmation
\* was declined is never major, stays in the working set, is offered in the
\* minor round and ends as minor or patch, and nothing is raised.
C3_DeclinedFallsThrough ==
  MultiPackage =>
    /\ \A k \in 1..Len(releases) :
         (releases[k].type = "major"
            /\ SemverLt(PkgJson(releases[k].name).version, FirstMajor))
         => ConfirmAnswered(releases[k].name, TRUE)
    /\ \A m \in 1..Len(asked) :
         (asked[m].prompt = "confirmMajor" /\ asked[m].answer = FALSE) =>
           LET n == asked[m].about IN
           /\ ~HasRelease(n, "major")
           /\ thrown = "none" /\ pc # "threw"
           /\ pc \in { "majorLoop", "askMinor" } => n \in Range(pkgsLeftToGetBumpTypeFor)
           /\ pc \notin { "majorLoop", "askMinor" } => MinorAsked
           /\ \A q \in 1..Len(asked) :
                asked[q].prompt = "minor" => n \in Range(asked[q].about)
           /\ SeveritiesResolved => (HasRelease(n, "minor") \/ HasRelease(n, "patch"))

C3_Witness ==
  /\ MultiPackage
  /\ pc = "returned"
  /\ \E n \in Range(packagesToRelease) :
       ConfirmAnswered(n, FALSE) /\ HasRelease(n, "minor")
  /\ \E n \in Range(packagesToRelease) :
       ConfirmAnswered(n, FALSE) /\ HasRelease(n, "patch")

\* C4: with a category chosen and the reuse confirmation answered yes,
\* createChangeset returns exactly one changeset, holding all resolved
\* releases and the shared category list with one entry per (bump type of
\* the releases, chosen category) pair.
C4_ReuseReturnsOneChangeset ==
  (pc = "returned" /\ shouldAskChangeTypes /\ ReuseAnswered(TRUE)) =>
    /\ Len(changesetList) = 1
    /\ changesetList[1].releases = releases
    /\ changesetList[1].categoryOfChangeList = categoryOfChangeList
    /\ Len(categoryOfChangeList) = Len(bumpTypes) * Len(chosenCategoryOfChangeList)

\* C5: with a category chosen and the reuse confirmation answered no,
\* createChangeset returns one changeset per resolved release, in the order
\* of the releases, each with that one release and one entry per chosen
\* category in the order chosen; every release is in exactly one changeset.
C5_OneChangesetPerRelease ==
  (pc = "returned" /\ shouldAskChangeTypes /\ ReuseAnswered(FALSE)) =>
    /\ Len(changesetList) = Len(releases)
    /\ \A k \in 1..Len(changesetList) :
         /\ changesetList[k].releases = << releases[k] >>
         /\ Len(changesetList[k].categoryOfChangeList) = Len(chosenCategoryOfChangeList)
         /\ \A c \in 1..Len(chosenCategoryOfChangeList) :
              changesetList[k].categoryOfChangeList[c].category
                = chosenCategoryOfChangeList[c]
    /\ \A r \in 1..Len(releases) :
         Cardinality({ k \in 1..Len(changesetList) :
                         releases[r] \in Range(changesetList[k].releases) }) = 1

C5_Witness ==
  /\ pc = "returned"
  /\ ReuseAnswered(FALSE)
  /\ Len(chosenCategoryOfChangeList) = 2
  /\ Len(changesetList) >= 2
  /\ changesetList[1].releases[1].type # changesetList[2].releases[1].type

\* C6: when a category was chosen, the "Summary" question is never asked and
\* every returned changeset has an empty summary and confirmed = true.
C6_NoSummaryWithCategories ==
  shouldAskChangeTypes =>
    /\ ~SummaryAsked
    /\ pc = "returned" =>
         \A k \in 1..Len(changesetList) :
           changesetList[k].summary = "" /\ changesetList[k].confirmed

\* C7: on the single-package path a declined first-major-release
\* confirmation ends createChangeset with ExitError: the package is below
\* 1.0.0 and major was chosen, nothing runs afterwards, no changeset is
\* returned and no summary question is asked; and
\* ExitError is raised in no other way.
C7_DeclineAborts ==
  /\ (~MultiPackage /\ ConfirmAnswered(allPackages[1].name, FALSE)) =>
       thrown = "ExitError"
  /\ thrown = "ExitError" =>
       /\ ~MultiPackage
       /\ SemverLt(allPackages[1].version, FirstMajor)
       /\ asked = << Asked("list", allPackages[1].name, "major"),
                     Asked("confirmMajor", allPackages[1].name, FALSE) >>
       /\ pc = "threw"
       /\ ~ENABLED Next
       /\ changesetList = <<>>
       /\ ~SummaryAsked

C7_Witness == thrown = "ExitError" /\ allPackages[1].version = <<0, 5, 0>>

\* C8: createChangeset raises only when, on the single-package path, the
\* major release of a package below 1.0.0 is declined.
C8_OnlyDeclineRaises ==
  thrown # "none" =>
    /\ thrown = "ExitError"
    /\ ~MultiPackage
    /\ ConfirmAnswered(allPackages[1].name, FALSE)

(* ----------------------- reading a written document ------------------- *)

IsFence(line) == line = << "---" >>

\* the positions of the '---' lines of a document
Fences(doc) == { k \in 1..Len(doc) : IsFence(doc[k]) }

\* the number of '---'-delimited header blocks of a document
HeaderBlocks(doc) == Cardinality(Fences(doc)) \div 2

\* the position of the line closing the first header block, 0 without one
FirstClose(doc) ==
  IF Len(doc) > 0 /\ IsFence(doc[1]) /\ Fences(doc) # { 1 }
  THEN CHOOSE k \in Fences(doc) \ { 1 } : \A l \in Fences(doc) \ { 1 } : k <= l
  ELSE 0

Unreadable == << "?", "?" >>

\* a header line "name": type read back as <<name, type>>
ParsePair(line) ==
  IF Len(line) = 4 /\ line[1] = "\"" /\ line[3] = "\": "
  THEN << line[2], line[4] >>
  ELSE Unreadable

\* the (name, type) pairs of the first header block of a document
ParseHeader(doc) ==
  IF FirstClose(doc) = 0 THEN { Unreadable }
  ELSE { ParsePair(doc[k]) : k \in { l \in 2..(FirstClose(doc) - 1) : doc[l] # <<>> } }

ReleasePairs(rels) == { << rels[k].name, rels[k].type >> : k \in 1..Len(rels) }

\* the non-blank lines after the first header block
Body(doc) ==
  SelectSeq(SubSeq(doc, FirstClose(doc) + 1, Len(doc)), LAMBDA line : line # <<>>)

WrittenDoc == files[changesetID]

\* the spec's Release: a bump type of major, minor or patch
PlainReleases(rels) ==
  /\ Len(rels) > 0
  /\ \A k \in 1..Len(rels) : rels[k].type \in { "major", "minor", "patch" }

\* C9: for a changeset with at least one release, whatever its category
\* list, the header of the written document, read back, gives exactly the
\* (name, type) pairs of the releases.
C9_HeaderRoundTrip ==
  (wpc = "returned" /\ PlainReleases(wcs.releases)) =>
    ParseHeader(WrittenDoc) = ReleasePairs(wcs.releases)

\* C10: the written document has one header block per distinct bump type of
\* the releases when the category list is not empty, and one header block
\* with all releases, followed directly by the summary, when it is empty.
C10_BlocksPerSeverity ==
  (wpc = "returned" /\ PlainReleases(wcs.releases)) =>
    IF Len(wcs.categoryOfChangeList) # 0
    THEN HeaderBlocks(WrittenDoc)
           = Cardinality({ wcs.releases[k].type : k \in 1..Len(wcs.releases) })
    ELSE /\ HeaderBlocks(WrittenDoc) = 1
         /\ ParseHeader(WrittenDoc) = ReleasePairs(wcs.releases)
         /\ Body(WrittenDoc) = IF wcs.summary = "" THEN <<>> ELSE Str(wcs.summary)

\* the position of the n-th '---' line of a document
NthFence(doc, n) ==
  CHOOSE k \in Fences(doc) : Cardinality({ l \in Fences(doc) : l <= k }) = n

\* the (name, type) pairs of the n-th header block of a document
BlockPairs(doc, n) ==
  { ParsePair(doc[l]) :
      l \in { m \in (NthFence(doc, 2 * n - 1) + 1)..(NthFence(doc, 2 * n) - 1) :
                doc[m] # <<>> } }

\* major before minor before patch
SeverityRank(type) ==
  IF type = "major" THEN 1 ELSE IF type = "minor" THEN 2 ELSE 3

\* C11: when writeChangeset renders per-severity header blocks, every block
\* holds releases of one severity only and at least one of them, the blocks
\* come in the order major, minor, patch whatever the order of the releases,
\* and every release is in exactly one block.
C11_GroupedBlocksOrdered ==
  (wpc = "returned" /\ RendersGrouped(variant, wcs) /\ PlainReleases(wcs.releases)) =>
    LET doc == WrittenDoc
        n == HeaderBlocks(doc)
    IN /\ Cardinality(Fences(doc)) = 2 * n
       /\ \A b \in 1..n :
            /\ BlockPairs(doc, b) # {}
            /\ \A p \in BlockPairs(doc, b), q \in BlockPairs(doc, b) : p[2] = q[2]
            /\ BlockPairs(doc, b) \subseteq ReleasePairs(wcs.releases)
       /\ \A b \in 1..n, c \in 1..n :
            b < c => \A p \in BlockPairs(doc, b), q \in BlockPairs(doc, c) :
                       SeverityRank(p[2]) < SeverityRank(q[2])
       /\ \A r \in ReleasePairs(wcs.releases) :
            Cardinality({ b \in 1..n : r \in BlockPairs(doc, b) }) = 1

C11_Witness ==
  /\ wpc = "returned"
  /\ RendersGrouped(variant, wcs)
  /\ Len(wcs.releases) = 3
  /\ wcs.releases[1].type = "patch"
  /\ wcs.releases[2].type = "major"
  /\ wcs.releases[3].type = "minor"
  /\ HeaderBlocks(WrittenDoc) = 3

\* the calls that returned their identifier
ReturnedCalls == { c \in DOMAIN calls : calls[c].wpc = "returned" }

\* C12: in any interleaving of writeChangeset calls on one directory, every
\* call that returned created a file of its own: the directory holds as many
\* files as calls returned, and no two calls that generated an identifier
\* hold the same one.
C12_OneNewFilePerCall ==
  /\ Cardinality(DOMAIN files) = Cardinality(ReturnedCalls)
  /\ \A c \in ReturnedCalls, d \in ReturnedCalls :
       c # d => calls[c].changesetID # calls[d].changesetID

\* C13: when prettier.format raises inside writeChangeset the call ends with
\* that error, returns no identifier and leaves the directory as it was; the
\* steps run in the order resolve configuration, format, write, and a file
\* changes only in the write step of a call whose formatting succeeded.
C13_FormatFailureWritesNothing ==
  /\ [](wthrown = "FormatError" =>
          /\ wpc = "threw"
          /\ DOMAIN files = {}
          /\ ~ENABLED NextW)
  /\ [][ /\ wpc' = "resolveConfig" => wpc \in { "called", "resolveConfig" }
         /\ wpc' = "threw" => wpc \in { "resolveConfig", "threw" }
         /\ wpc' = "writeFile" =>
              (wpc \in { "resolveConfig", "writeFile" } /\ wthrown' = "none")
         /\ wpc' = "returned" => wpc \in { "writeFile", "returned" }
         /\ files' # files =>
              (wpc = "writeFile" /\ wthrown = "none" /\ wpc' = "returned") ]_vars

C13_Witness ==
  /\ wthrown = "FormatError"
  /\ wpc = "threw"
  /\ changesetID \in Ids
  /\ PlainReleases(wcs.releases)
  /\ Len(wcs.categoryOfChangeList) # 0

\* where createChangeset stands inside a setSummary call
InSetSummary ==
  \/ pc = "setSummary" /\ i <= Len(changesetList)
  \/ pc \in { "summaryFallback", "summaryRequired" }

\* the first non-empty text of a sequence of texts, "" without one
RECURSIVE FirstNonEmpty(_)
FirstNonEmpty(texts) ==
  IF texts = <<>> THEN ""
  ELSE IF Head(texts) # "" THEN Head(texts)
  ELSE FirstNonEmpty(Tail(texts))

\* C14: setSummary returns exactly when a non-empty text is obtained: while
\* it waits after the first question every text obtained so far is empty;
\* the step on which it returns obtains the first non-empty text, in the
\* order first question, editor, retry questions, and stores that text as
\* the summary; and when the user does not answer with empty lines for
\* ever, every call returns.
C14_ReturnsOnFirstNonEmpty ==
  /\ [](pc \in { "summaryFallback", "summaryRequired" } =>
          /\ Len(heard) >= 2
          /\ \A k \in 1..Len(heard) : heard[k] = "")
  /\ [][ (InSetSummary /\ i' = i + 1) =>
           /\ Len(heard') >= 1
           /\ heard'[Len(heard')] # ""
           /\ \A k \in 1..(Len(heard') - 1) : heard'[k] = ""
           /\ changesetList'[i].summary = FirstNonEmpty(heard')
           /\ (pc # "setSummary" => heard' = Append(heard, heard'[Len(heard')])) ]_vars
  /\ [][ (InSetSummary /\ i' = i) =>
           (heard' # <<>> /\ \A k \in 1..Len(heard') : heard'[k] = "") ]_vars
  /\ <>(pc = "returned")

C14_Witness ==
  /\ pc = "returned"
  /\ Len(heard) = 3 + MaxRetries
  /\ changesetList[Len(changesetList)].summary = "fix the bug"
  /\ \E k \in 1..Len(changesetList) : changesetList[k].summary = "from editor"

\* setSummary has returned for the changesets before position i
SummaryCallDone == pc \in { "setSummary", "returned" } /\ i > 1

\* C15: after setSummary returns, the changeset is confirmed exactly when
\* its summary is the non-empty text the external editor returned; a summary
\* typed at the first question or at a retry question leaves confirmed false,
\* whatever the flag was before the call.
C15_ConfirmedIffEditor ==
  SummaryCallDone =>
    /\ LET cs == changesetList[i - 1]
           fromEditor == Len(heard) = 2 /\ heard[1] = "" /\ heard[2] # ""
       IN /\ cs.confirmed = fromEditor
          /\ cs.summary = heard[Len(heard)]
          /\ fromEditor => cs.summary \in EditorTexts
          /\ ~fromEditor => cs.summary \in SummaryTexts
    /\ \A k \in 1..(i - 1) :
         changesetList[k].confirmed = (changesetList[k].summary \in EditorTexts \ { "" })

C15_Witness ==
  /\ pc = "returned"
  /\ Len(changesetList) = 2
  /\ changesetList[1].confirmed /\ changesetList[1].summary = "from editor"
  /\ ~changesetList[2].confirmed /\ changesetList[2].summary = "fix the bug"
  /\ Len(heard) = 3

\* how many times the "Summary" question of setSummary was asked
SummaryCalls == Cardinality({ m \in 1..Len(asked) : asked[m].prompt = "Summary" })

\* the multi-package path with the category prompt answered with no category
NoCategoryChosen ==
  /\ MultiPackage
  /\ \E m \in 1..Len(asked) : asked[m].prompt = "categories" /\ asked[m].answer = <<>>

\* C16: in the multi-package path with no category chosen, the one changeset
\* is pushed after the severity rounds with all resolved releases, an empty
\* category list, an empty summary and confirmed = false; setSummary runs on
\* it once, after it is pushed; and createChangeset returns that changeset.
C16_OneDefaultChangeset ==
  NoCategoryChosen =>
    /\ ~shouldAskChangeTypes
    /\ SummaryCalls <= 1
    /\ changesetList # <<>> =>
         /\ SeveritiesResolved
         /\ Len(changesetList) = 1
         /\ changesetList[1].releases = releases
         /\ changesetList[1].categoryOfChangeList = <<>>
    /\ SummaryCalls = 0 =>
         \A k \in 1..Len(changesetList) :
           ~changesetList[k].confirmed /\ changesetList[k].summary = ""
    /\ SummaryCalls = 1 => Len(changesetList) = 1
    /\ pc = "returned" => (Len(changesetList) = 1 /\ SummaryCalls = 1)

C16_Witness ==
  /\ NoCategoryChosen
  /\ pc = "returned"
  /\ Len(changesetList) = 1
  /\ Len(changesetList[1].releases) = 3
  /\ changesetList[1].releases[1].type = "major"
  /\ changesetList[1].releases[2].type = "minor"
  /\ changesetList[1].releases[3].type = "patch"
  /\ changesetList[1].confirmed

\* the answer given at the list prompt of the single-package path
ListAnswer == asked[1].answer

\* the first-major-release confirmation was asked
ConfirmAsked == \E m \in 1..Len(asked) : asked[m].prompt = "confirmMajor"

\* C17: a single-package run that is not aborted returns one changeset with
\* one release, of the only package and of the type chosen at the list
\* prompt, with an empty category list, and asks for the summary once; the
\* first-major-release confirmation is asked exactly when major was chosen
\* for a package below 1.0.0.
C17_SinglePackage ==
  (~MultiPackage /\ asked # <<>>) =>
    /\ asked[1].prompt = "list"
    /\ \A m \in 1..Len(asked) :
         asked[m].prompt \in { "list", "confirmMajor", "Summary" }
    /\ ConfirmAsked =>
         (ListAnswer = "major" /\ SemverLt(allPackages[1].version, FirstMajor))
    /\ (ListAnswer = "major" /\ SemverLt(allPackages[1].version, FirstMajor)
          /\ pc # "confirmSingle") => ConfirmAsked
    /\ changesetList # <<>> => SummaryCalls <= 1
    /\ changesetList = <<>> => SummaryCalls = 0
    /\ pc = "returned" =>
         /\ SummaryCalls = 1
         /\ Len(changesetList) = 1
         /\ changesetList[1].releases =
              << [name |-> allPackages[1].name, type |-> ListAnswer] >>
         /\ changesetList[1].categoryOfChangeList = <<>>

C17_Witness ==
  /\ ~MultiPackage
  /\ pc = "returned"
  /\ ConfirmAnswered(allPackages[1].name, TRUE)
  /\ changesetList[1].releases[1].type = "major"
  /\ changesetList[1].summary = "fix the bug"

\* C18: in the multi-package path getPackagesToRelease asks again while the
\* selection is empty and returns at least one name, none of them a group
\* label, so the severity rounds start from a non-empty candidate set and
\* every changeset returned has at least one release.
C18_CandidatesNonEmpty ==
  /\ [](MultiPackage =>
          /\ pc \in { "start", "askPackages" } => packagesToRelease = <<>>
          /\ pc \notin { "start", "askPackages" } =>
               /\ packagesToRelease # <<>>
               /\ ChangedLabel \notin Range(packagesToRelease)
               /\ UnchangedLabel \notin Range(packagesToRelease)
               /\ \E m \in 1..Len(asked) :
                    asked[m].prompt = "packages" /\ asked[m].answer # <<>>
          /\ pc = "askCategories" =>
               Range(pkgsLeftToGetBumpTypeFor) = Range(packagesToRelease)
          /\ SeveritiesResolved => releases # <<>>
          /\ pc = "returned" =>
               \A k \in 1..Len(changesetList) : changesetList[k].releases # <<>>)
  /\ [][ pc = "askPackages" =>
           \/ pc' = "askPackages" /\ retries' = retries + 1 /\ packagesToRelease' = <<>>
           \/ pc' = "askCategories" /\ packagesToRelease' # <<>> ]_vars

C18_Witness ==
  /\ MultiPackage
  /\ pc = "returned"
  /\ Len(packagesToRelease) = 1
  /\ Len(asked[1].answer) = 1
  /\ Len(changesetList) = 1
  /\ Len(changesetList[1].releases) = 1

\* the category lines of a document, in order
CategoryLines(doc) == SelectSeq(doc, LAMBDA line : Len(line) > 0 /\ line[1] = "- [ ")

\* entries as createChangeset pushes them: a category and a description only
BuilderEntries(list) ==
  /\ Len(list) # 0
  /\ \A k \in 1..Len(list) : DOMAIN list[k] = { "category", "description" }

\* C19: for a changeset with a non-empty category list of entries as the
\* builder makes them, the written document has one line
\* '- [ <kind-title> ] <description>' per entry of the list, in the order of
\* the list, and no other category line.
C19_OneLinePerEntry ==
  (wpc = "returned" /\ PlainReleases(wcs.releases)
     /\ BuilderEntries(wcs.categoryOfChangeList)) =>
    CategoryLines(WrittenDoc) =
      [k \in 1..Len(wcs.categoryOfChangeList) |->
         << "- [ ", getKindTitle(wcs.categoryOfChangeList[k].category), " ] ",
            wcs.categoryOfChangeList[k].description >>]

\* C20: every release of a changeset createChangeset returns names a package
\* of allPackages, whatever changedPackages holds and whatever is selected.
C20_ReleasesNameWorkspacePackages ==
  pc = "returned" =>
    \A k \in 1..Len(changesetList) :
      \A r \in 1..Len(changesetList[k].releases) :
        changesetList[k].releases[r].name \in Range(Names(allPackages))

C20_Witness ==
  /\ pc = "returned"
  /\ MultiPackage
  /\ Outsider \in Range(changedPackages)
  /\ asked[1].answer # <<>>
  /\ asked[1].answer[1] \in Range(changedPackages)
  /\ Len(changesetList) >= 2

\* the releases of the bucket of a bump type, in a result of groupByBumpType
Bucket(grouped, bumpType) ==
  grouped[CHOOSE b \in 1..Len(grouped) : grouped[b].bumpType = bumpType].releases

\* C21: groupByBumpType puts every release in exactly one of the buckets
\* major, minor and patch, a release of any other type in the bucket major,
\* and nothing in the bucket none; so the blocks written per bump type are
\* the non-empty ones of those three buckets and none is written for none.
\* Stated of the releases of every call that has returned.
C21_NoneBucketEmpty ==
  wpc = "returned" =>
    LET rels == wcs.releases
        grouped == groupByBumpType(rels)
        major == Range(Bucket(grouped, "major"))
        minor == Range(Bucket(grouped, "minor"))
        patch == Range(Bucket(grouped, "patch"))
    IN /\ Bucket(grouped, "none") = <<>>
       /\ \A k \in 1..Len(rels) :
            /\ rels[k].type = "minor" => (rels[k] \in minor /\ rels[k] \notin major \cup patch)
            /\ rels[k].type = "patch" => (rels[k] \in patch /\ rels[k] \notin major \cup minor)
            /\ rels[k].type \notin { "minor", "patch" } =>
                 (rels[k] \in major /\ rels[k] \notin minor \cup patch)
       /\ Len(Bucket(grouped, "major")) + Len(Bucket(grouped, "minor"))
            + Len(Bucket(grouped, "patch")) = Len(rels)
       /\ RendersGrouped(variant, wcs) =>
            /\ HeaderBlocks(WrittenDoc) = Cardinality({ m \in { major, minor, patch } : m # {} })
            /\ \A b \in 1..HeaderBlocks(WrittenDoc) : BlockPairs(WrittenDoc, b) # {}

C21_Witness ==
  /\ wpc = "returned"
  /\ RendersGrouped(variant, wcs)
  /\ Len(wcs.releases) = 3
  /\ wcs.releases[1].type = "none"
  /\ wcs.releases[2].type = "minor"
  /\ wcs.releases[3].type = "none"
  /\ HeaderBlocks(WrittenDoc) = 2

\* the candidates without a major release, in the order of the working set
Unassigned ==
  SelectSeq(OrderedSet(packagesToRelease), LAMBDA n : ~HasRelease(n, "major"))

\* the packages ticked at the major prompt that confirmMajorRelease asks about
MajorsToConfirm ==
  { k \in 1..Len(pkgsThatShouldBeMajorBumped) :
      NeedsMajorConfirm(PkgJson(pkgsThatShouldBeMajorBumped[k])) }

\* how many first-major-release confirmations were answered
ConfirmsAnswered ==
  Cardinality({ q \in 1..Len(asked) : asked[q].prompt = "confirmMajor" })

\* C22: throughout the multi-package severity rounds the releases are in the
\* order major, minor, patch; the minor prompt is issued only after the loop
\* over the major answers is over and every confirmation of it is answered,
\* only for a non-empty set of unassigned candidates, and it offers exactly
\* the candidates that have no major release.
C22_SeverityOrder ==
  /\ []((MultiPackage /\ thrown = "none") =>
         /\ \A k \in 1..(Len(releases) - 1) :
              SeverityRank(releases[k].type) <= SeverityRank(releases[k + 1].type)
         /\ pc \in { "start", "askPackages", "askCategories", "askMajor", "majorLoop" } =>
              \A k \in 1..Len(releases) : releases[k].type = "major"
         /\ pc \in { "start", "askPackages", "askCategories", "askMajor", "majorLoop",
                     "askMinor" } => ~MinorAsked
         /\ pc = "askMinor" =>
              /\ i > Len(pkgsThatShouldBeMajorBumped)
              /\ ConfirmsAnswered = Cardinality(MajorsToConfirm)
              /\ pkgsLeftToGetBumpTypeFor # <<>>
              /\ pkgsLeftToGetBumpTypeFor = Unassigned)
  /\ [][ IF pc = "askMinor"
         THEN /\ asked' = Append(asked, asked'[Len(asked')])
              /\ asked'[Len(asked')].prompt = "minor"
              /\ asked'[Len(asked')].about = pkgsLeftToGetBumpTypeFor
              /\ pc' = "patch"
         ELSE Len(asked') > Len(asked) => asked'[Len(asked')].prompt # "minor" ]_vars

C22_Witness ==
  /\ MultiPackage
  /\ pc = "returned"
  /\ MinorAsked
  /\ \E n \in Range(packagesToRelease) : ConfirmAnswered(n, TRUE)
  /\ \E n \in Range(packagesToRelease) : ConfirmAnswered(n, FALSE)
  /\ Len(releases) = 3
  /\ releases[1].type = "major"
  /\ releases[2].type = "minor"
  /\ releases[3].type = "patch"

====
